---- MODULE Spec2Model ----
(***************************************************************************)
(* Model of mortgage.py: the Mortgage engine and its PaymentSchedule.      *)
(*                                                                         *)
(* Money is a Decimal in the source.  Here an amount is an integer number  *)
(* of units of 10^-Precision dollars, so that amounts finer than a cent    *)
(* (which the engine accepts) are representable; Mortgage.round rounds to  *)
(* ndigits decimal places, i.e. to a multiple of Cent units, half to even. *)
(* An interest rate is an exact fraction <<numerator, denominator>>.       *)
(***************************************************************************)
EXTENDS Integers, Sequences, FiniteSets, TLC

\* ------------------------------------------------------------------ bounds
Precision == 3      \* decimal places of a dollar carried by the model
MaxTerm == 2        \* longest loan term (periods) given to a loan
MaxGo == 2          \* largest explicit period count given to go
MaxLedger == 3      \* calls and loop iterations stop growing the ledger here
MaxRefinance == 1   \* refinance calls explored per behaviour

\* ------------------------------------------------------- program constants
ndigits == 2        \* Mortgage.round: round(x, ndigits=2)
None == -1          \* go(periods=None): no period can equal it

Cent == 10 ^ (Precision - ndigits)

\* ------------------------------------------------------------ input sets
Principals == {(3 * Cent) \div 2, 5 * Cent}
Rates == {<<-1, 2>>, <<0, 1>>, <<1, 4>>}
Terms == 1..MaxTerm
InitCosts == {0}
RefinanceTerms == {MaxTerm}
RefinanceCosts == {2 * Cent}
ExtraOnce == {-Cent, (7 * Cent) \div 2}
ExtraEach == {-Cent, 3 * Cent}
OtherCosts == {-Cent, Cent \div 2}
GoPeriods == {None} \cup (0..MaxGo)

VARIABLES period, principal, interest_rate, nominal_payment, payment,
          total_paid, table, pc, end_period, call, at_entry, hist

vars == <<period, principal, interest_rate, nominal_payment, payment,
          total_paid, table, pc, end_period, call, at_entry, hist>>

\* ---------------------------------------------------------- arithmetic
Min(a, b) == IF a <= b THEN a ELSE b

\* num/den rounded to an integer, ties to the even neighbour
\* (Decimal.__round__ quantizes with ROUND_HALF_EVEN).
HalfEven(num, den) ==
    LET n == IF den < 0 THEN -num ELSE num
        d == IF den < 0 THEN -den ELSE den
        q == n \div d
        r == n - q * d
    IN  IF 2 * r < d THEN q
        ELSE IF 2 * r > d THEN q + 1
        ELSE IF q % 2 = 0 THEN q ELSE q + 1

\* Mortgage.round applied to the amount num/den (in units).
round(num, den) == Cent * HalfEven(num, den * Cent)

\* Denominator of P*r / (1 - (1+r)**(-N)) brought over the common
\* denominator: P*r/(1-(1+r)^-N) = P*a*(a+b)^N / (b*((a+b)^N - b^N)).
AnnuityDen(r, N) == r[2] * ((r[1] + r[2]) ^ N - r[2] ^ N)

\* payment_per_period raises (decimal.InvalidOperation / DivisionByZero)
\* when the quotient's denominator is zero.
DivisionFails(r, N) == AnnuityDen(r, N) = 0

payment_per_period(P, r, N) ==
    round(P * r[1] * (r[1] + r[2]) ^ N, AnnuityDen(r, N))

\* ------------------------------------------------- wide arithmetic
\* Decimal carries 28 significant digits and (1+r)**N does not fit a
\* machine integer for the terms of demo.py.  A wide natural number is the
\* sequence of its digits in base Limb, least significant first, without
\* leading zeros; zero is the empty sequence.  Carries are found by
\* look-ahead and sums are split in halves, which keeps the evaluation
\* shallow.
Limb == 10 ^ 4

Max(a, b) == IF a >= b THEN a ELSE b

BigDigit(a, i) == IF i <= Len(a) THEN a[i] ELSE 0

BigTrim(a) ==
    LET nz == {i \in 1..Len(a) : a[i] # 0}
    IN  IF nz = {} THEN <<>>
        ELSE SubSeq(a, 1, CHOOSE i \in nz : \A j \in nz : j <= i)

\* n < 2^31 has at most three digits
BigFromInt(n) ==
    BigTrim(<<n % Limb, (n \div Limb) % Limb, n \div (Limb * Limb)>>)

\* a * Limb^k
BigShift(a, k) == IF a = <<>> THEN <<>> ELSE [i \in 1..k |-> 0] \o a

\* digit sums s[j] in 0..(2 * Limb - 2): a carry enters position i when
\* some lower position overflows and all positions between pass it on
BigAdd(a, b) ==
    LET n == Max(Len(a), Len(b)) + 1
        s == [i \in 1..n |-> BigDigit(a, i) + BigDigit(b, i)]
        carry(i) == IF \E j \in 1..(i - 1) :
                          /\ s[j] >= Limb
                          /\ \A k \in (j + 1)..(i - 1) : s[k] = Limb - 1
                      THEN 1 ELSE 0
    IN  BigTrim([i \in 1..n |-> (s[i] + carry(i)) % Limb])

\* a - b for a >= b
BigSub(a, b) ==
    LET n == Len(a)
        d == [i \in 1..n |-> a[i] - BigDigit(b, i)]
        borrow(i) == IF \E j \in 1..(i - 1) :
                           /\ d[j] < 0
                           /\ \A k \in (j + 1)..(i - 1) : d[k] = 0
                       THEN 1 ELSE 0
    IN  BigTrim([i \in 1..n |-> (d[i] - borrow(i) + Limb) % Limb])

\* a * k for 0 <= k < Limb
BigMulLimb(a, k) ==
    BigAdd([i \in 1..Len(a) |-> (a[i] * k) % Limb],
           BigShift(BigTrim([i \in 1..Len(a) |-> (a[i] * k) \div Limb]), 1))

\* a * (b[lo] * Limb^(lo-1) + ... + b[hi] * Limb^(hi-1))
RECURSIVE BigMulDigits(_, _, _, _)
BigMulDigits(a, b, lo, hi) ==
    IF lo = hi THEN BigShift(BigMulLimb(a, b[lo]), lo - 1)
    ELSE LET mid == lo + (hi - lo) \div 2
         IN  BigAdd(BigMulDigits(a, b, lo, mid),
                    BigMulDigits(a, b, mid + 1, hi))

BigMul(a, b) ==
    IF a = <<>> \/ b = <<>> THEN <<>> ELSE BigMulDigits(a, b, 1, Len(b))

RECURSIVE BigPow(_, _)
BigPow(a, n) ==
    IF n = 0 THEN <<1>>
    ELSE LET half == BigPow(a, n \div 2)
         IN  IF n % 2 = 0 THEN BigMul(half, half)
             ELSE BigMul(BigMul(half, half), a)

\* a <= b
BigLeq(a, b) ==
    IF Len(a) # Len(b) THEN Len(a) < Len(b)
    ELSE \/ a = b
         \/ \E i \in 1..Len(a) :
              /\ a[i] < b[i]
              /\ \A j \in (i + 1)..Len(a) : a[j] = b[j]

\* the greatest q = lo + k * step, k in 0..15, with q * d <= n, refined
\* down to step 1; given lo * d <= n < (lo + 16 * step) * d
RECURSIVE BigQuotient(_, _, _, _)
BigQuotient(n, d, lo, step) ==
    LET fit == {k \in 0..15 : BigLeq(BigMul(d, BigFromInt(lo + k * step)), n)}
        q == lo + step * (CHOOSE k \in fit : \A j \in fit : j <= k)
    IN  IF step = 1 THEN q ELSE BigQuotient(n, d, q, step \div 16)

\* HalfEven for wide n >= 0 and d > 0 whose quotient is below 16^7
BigHalfEven(n, d) ==
    LET q == BigQuotient(n, d, 0, 16 ^ 6)
        r == BigSub(n, BigMul(d, BigFromInt(q)))
        twice == BigAdd(r, r)
    IN  IF ~BigLeq(d, twice) THEN q
        ELSE IF ~BigLeq(twice, d) THEN q + 1
        ELSE IF q % 2 = 0 THEN q ELSE q + 1

\* slip: the discount factor is taken over N + 1 periods
BigPayment_ExtraPeriod(P, r, N) ==
    LET up == BigPow(BigFromInt(r[1] + r[2]), N + 1)
        lo == BigPow(BigFromInt(r[2]), N + 1)
    IN  Cent * BigHalfEven(
                 BigMul(BigMul(BigFromInt(P), BigFromInt(r[1])), up),
                 BigMul(BigMul(BigFromInt(r[2]), BigSub(up, lo)),
                        BigFromInt(Cent)))

\* payment_per_period for P > 0, r > 0, N > 0 of any size: the quotient of
\* payment_per_period above, with numerator and denominator held wide.
BigPayment(P, r, N) ==
    LET up == BigPow(BigFromInt(r[1] + r[2]), N)
        lo == BigPow(BigFromInt(r[2]), N)
    IN  Cent * BigHalfEven(
                 BigMul(BigMul(BigFromInt(P), BigFromInt(r[1])), up),
                 BigMul(BigMul(BigFromInt(r[2]), BigSub(up, lo)),
                        BigFromInt(Cent)))

\* ------------------------------------------------------------- ledger
PaymentEntry(p, pp, ip, oc, tp) ==
    [principal |-> p, principal_paid |-> pp, interest_paid |-> ip,
     other_costs |-> oc, total_paid |-> tp]


\* slip: the newest pair takes the place of the last one
append_Overwrite(t, per, entry) ==
    IF t = <<>> THEN <<[period |-> per, entry |-> entry]>>
    ELSE [t EXCEPT ![Len(t)] = [period |-> per, entry |-> entry]]

\* slip: the newest pair is put in front
append_Front(t, per, entry) == <<[period |-> per, entry |-> entry]>> \o t

\* PaymentSchedule.append: one (period, entry) pair at the end.
append(t, per, entry) == Append(t, [period |-> per, entry |-> entry])

\* Mortgage._add_payment with the engine state passed explicitly.
AddPayment(t, per, p, tp, pp, ip, oc) ==
    append(t, per, PaymentEntry(p, pp, ip, oc, tp))

\* The engine's fields, as one value.
State ==
    [period |-> period, principal |-> principal,
     interest_rate |-> interest_rate, nominal_payment |-> nominal_payment,
     payment |-> payment, total_paid |-> total_paid, table |-> table]

\* The call in progress or last returned: its name, its arguments and
\* whether it raised.
Call(op, arg, raised) == [op |-> op, arg |-> arg, raised |-> raised]

\* What go's loop works from, as it stood when go was last entered;
\* NoEntry once another operation has been called.
AtEntry(per, p, r, pay) ==
    [period |-> per, principal |-> p, interest_rate |-> r, payment |-> pay]

NoEntry == AtEntry(None, 0, <<0, 1>>, 0)

\* ------------------------------------------------- the engine's arithmetic
\* _setup: self.principal = self.round(Decimal(principal))
SetupPrincipal(P) == round(P, 1)


\* slip: the running total restarts at the new loan's costs
SetupTotal_Reset(tp, oc) == oc

\* _setup: self.total_paid += other_costs
SetupTotal(tp, oc) == tp + oc


\* slip: the end period is one too far
EndPeriod_OffByOne(per, n) == IF n = None THEN None ELSE per + n + 1

\* go: end_period = self.period + periods if periods is not None else None
EndPeriod(per, n) == IF n = None THEN None ELSE per + n

\* slip: the interest is cut off at the cent, not rounded
NewInterest_Truncated(p, r) == Cent * ((p * r[1]) \div (r[2] * Cent))

\* go: new_interest = self.round(self.principal * self.interest_rate)
NewInterest(p, r) == round(p * r[1], r[2])


\* slip: max in place of min
InterestPaid_Max(ni, pay) == IF ni >= pay THEN ni ELSE pay

\* go: interest_paid = min(new_interest, self.payment)
InterestPaid(ni, pay) == Min(ni, pay)


\* slip: the operands of the subtraction are exchanged
PrincipalPaid_Swapped(p, pay, ip) == Min(p, ip - pay)

\* slip: the principal payment is not capped by the remaining balance
PrincipalPaid_Unclamped(p, pay, ip) == pay - ip

\* go: principal_paid = min(self.principal, self.payment - interest_paid)
PrincipalPaid(p, pay, ip) == Min(p, pay - ip)


\* slip: the interest part of a payment is left out of the running total
PaidAfterStep_NoInterest(tp, pp, ip) == tp + pp

\* go: self.total_paid += principal_paid + interest_paid
PaidAfterStep(tp, pp, ip) == tp + pp + ip


\* slip: the extra payment is applied without the clamp
ClampExtra_None(e, p) == e

\* pay_extra_one_time: extra_payment = min(extra_payment, self.principal)
ClampExtra(e, p) == Min(e, p)


\* slip: the extra is added to the standing payment
PaymentWithExtra_Accumulate(nom, e) == payment + e

\* pay_extra_each_time: self.payment = self.nominal_payment + extra_payment
PaymentWithExtra(nom, e) == nom + e

\* pay_other_costs: self.total_paid += other_costs
PaidAfterCosts(tp, oc) == tp + oc

\* --------------------------------------------------------------- history
\* hist.periods: the term the loan was constructed with; hist.go1: how many
\* go(1) calls have been made while nothing else was ever called (None once
\* anything else was called or more than hist.periods of them were made);
\* hist.refinances: refinance calls made.
Hist(N, g, k) == [periods |-> N, go1 |-> g, refinances |-> k]

NotPlain == Hist(hist.periods, None, hist.refinances)

\* ------------------------------------------------------------ operations
\* Mortgage.__init__ followed by _setup, for terms on which
\* payment_per_period returns (otherwise no object is constructed).
Init ==
    \E P \in Principals, r \in Rates, N \in Terms, c \in InitCosts :
        /\ ~DivisionFails(r, N)
        /\ period = 0
        /\ principal = SetupPrincipal(P)
        /\ interest_rate = r
        /\ nominal_payment = payment_per_period(SetupPrincipal(P), r, N)
        /\ payment = payment_per_period(SetupPrincipal(P), r, N)
        /\ total_paid = SetupTotal(0, c)
        /\ table = AddPayment(<<>>, 0, SetupPrincipal(P), SetupTotal(0, c),
                              0, 0, c)
        /\ pc = "idle"
        /\ end_period = None
        /\ call = Call("init", <<P, r, N, c>>, FALSE)
        /\ at_entry = NoEntry
        /\ hist = Hist(N, 0, 0)

\* refinance -> _setup.  principal and interest_rate are assigned before
\* payment_per_period is evaluated; when it raises, the assignments that
\* follow it in _setup are not executed.
Refinance(P, r, N, c) ==
    /\ pc = "idle"
    /\ hist.refinances < MaxRefinance
    /\ Len(table) < MaxLedger
    /\ principal' = SetupPrincipal(P)
    /\ interest_rate' = r
    /\ IF DivisionFails(r, N)
         THEN /\ call' = Call("refinance", <<P, r, N, c>>, TRUE)
              /\ UNCHANGED <<nominal_payment, payment, total_paid, table>>
         ELSE /\ call' = Call("refinance", <<P, r, N, c>>, FALSE)
              /\ nominal_payment' = payment_per_period(SetupPrincipal(P), r, N)
              /\ payment' = payment_per_period(SetupPrincipal(P), r, N)
              /\ total_paid' = SetupTotal(total_paid, c)
              /\ table' = AddPayment(table, period, SetupPrincipal(P),
                                     SetupTotal(total_paid, c), 0, 0, c)
    /\ hist' = Hist(hist.periods, None, hist.refinances + 1)
    /\ at_entry' = NoEntry
    /\ UNCHANGED <<period, pc, end_period>>

\* go, entry: end_period is fixed, then the loop is entered.
Go(n) ==
    /\ pc = "idle"
    /\ pc' = "go"
    /\ end_period' = EndPeriod(period, n)
    /\ call' = Call("go", <<n>>, FALSE)
    /\ at_entry' = AtEntry(period, principal, interest_rate, payment)
    /\ hist' = IF n = 1 /\ hist.go1 # None /\ hist.go1 < hist.periods
                 THEN Hist(hist.periods, hist.go1 + 1, hist.refinances)
                 ELSE NotPlain
    /\ UNCHANGED <<period, principal, interest_rate, nominal_payment,
                   payment, total_paid, table>>

\* go, one iteration of the while loop that passes both break tests.
GoStep ==
    /\ pc = "go"
    /\ period # end_period
    /\ principal # 0
    /\ Len(table) < MaxLedger
    /\ LET ni == NewInterest(principal, interest_rate)
           ip == InterestPaid(ni, payment)
           pp == PrincipalPaid(principal, payment, ip)
       IN  /\ period' = period + 1
           /\ principal' = principal - pp
           /\ total_paid' = PaidAfterStep(total_paid, pp, ip)
           /\ table' = AddPayment(table, period + 1, principal - pp,
                                  PaidAfterStep(total_paid, pp, ip),
                                  pp, ip, 0)
    /\ UNCHANGED <<interest_rate, nominal_payment, payment, pc, end_period,
                   call, at_entry, hist>>

\* go, one of the two break tests succeeds and the call returns.
GoReturn ==
    /\ pc = "go"
    /\ (period = end_period \/ principal = 0)
    /\ pc' = "idle"
    /\ end_period' = None
    /\ UNCHANGED <<at_entry, period, principal, interest_rate, nominal_payment,
                   payment, total_paid, table, call, hist>>

PayExtraOneTime(e) ==
    /\ pc = "idle"
    /\ Len(table) < MaxLedger
    /\ LET x == ClampExtra(e, principal)
       IN  /\ principal' = principal - x
           /\ total_paid' = total_paid + x
           /\ table' = AddPayment(table, period, principal - x,
                                  total_paid + x, x, 0, 0)
    /\ call' = Call("pay_extra_one_time", <<e>>, FALSE)
    /\ at_entry' = NoEntry
    /\ hist' = NotPlain
    /\ UNCHANGED <<period, interest_rate, nominal_payment, payment, pc,
                   end_period>>

PayExtraEachTime(e) ==
    /\ pc = "idle"
    /\ payment' = PaymentWithExtra(nominal_payment, e)
    /\ call' = Call("pay_extra_each_time", <<e>>, FALSE)
    /\ at_entry' = NoEntry
    /\ hist' = NotPlain
    /\ UNCHANGED <<period, principal, interest_rate, nominal_payment,
                   total_paid, table, pc, end_period>>

PayOtherCosts(c) ==
    /\ pc = "idle"
    /\ Len(table) < MaxLedger
    /\ total_paid' = PaidAfterCosts(total_paid, c)
    /\ table' = AddPayment(table, period, principal,
                           PaidAfterCosts(total_paid, c), 0, 0, c)
    /\ call' = Call("pay_other_costs", <<c>>, FALSE)
    /\ at_entry' = NoEntry
    /\ hist' = NotPlain
    /\ UNCHANGED <<period, principal, interest_rate, nominal_payment,
                   payment, pc, end_period>>

Next ==
    \/ \E P \in Principals, r \in Rates, N \in RefinanceTerms,
          c \in RefinanceCosts :
           Refinance(P, r, N, c)
    \/ \E n \in GoPeriods : Go(n)
    \/ GoStep
    \/ GoReturn
    \/ \E e \in ExtraOnce : PayExtraOneTime(e)
    \/ \E e \in ExtraEach : PayExtraEachTime(e)
    \/ \E c \in OtherCosts : PayOtherCosts(c)

Spec == Init /\ [][Next]_vars

\* ------------------------------------------------- the loan of demo.py
\* The amounts, rates and term of demo.py: 300_000 and 245_000 borrowed at
\* Decimal('0.04')/12 and Decimal('0.03')/12 over 60 periods, 120_000 paid
\* once and 3_000 more paid each period.
Dollar == 10 ^ Precision

DemoPrincipals == {300000 * Dollar, 245000 * Dollar}

DemoRates == {<<1, 300>>, <<1, 400>>}

DemoTerms == {60}

DemoExtraOnce == {120000 * Dollar}

DemoExtraEach == {3000 * Dollar}

\* Mortgage.__init__ followed by _setup on the terms of demo.py.
DemoInit ==
    \E P \in DemoPrincipals, r \in DemoRates, N \in DemoTerms :
        /\ period = 0
        /\ principal = SetupPrincipal(P)
        /\ interest_rate = r
        /\ nominal_payment = BigPayment(SetupPrincipal(P), r, N)
        /\ payment = BigPayment(SetupPrincipal(P), r, N)
        /\ total_paid = SetupTotal(0, 0)
        /\ table = AddPayment(<<>>, 0, SetupPrincipal(P), SetupTotal(0, 0),
                              0, 0, 0)
        /\ pc = "idle"
        /\ end_period = None
        /\ call = Call("init", <<P, r, N, 0>>, FALSE)
        /\ at_entry = NoEntry
        /\ hist = Hist(N, 0, 0)

DemoNext ==
    \/ \E n \in GoPeriods : Go(n)
    \/ GoStep
    \/ GoReturn
    \/ \E e \in DemoExtraOnce : PayExtraOneTime(e)
    \/ \E e \in DemoExtraEach : PayExtraEachTime(e)

DemoSpec == DemoInit /\ [][DemoNext]_vars

\* ------------------------------------------------ vocabulary of the claims
Rec(i) == table[i].entry

Last == Rec(Len(table))

RECURSIVE LedgerSum(_)
\* principal_paid + interest_paid + other_costs summed over a ledger
LedgerSum(t) ==
    IF t = <<>> THEN 0
    ELSE LET e == t[Len(t)].entry
         IN  e.principal_paid + e.interest_paid + e.other_costs
               + LedgerSum(SubSeq(t, 1, Len(t) - 1))

RECURSIVE PrincipalPaidSum(_)
\* principal_paid summed over a ledger
PrincipalPaidSum(t) ==
    IF t = <<>> THEN 0
    ELSE t[Len(t)].entry.principal_paid
           + PrincipalPaidSum(SubSeq(t, 1, Len(t) - 1))

\* The last call was op and has returned.
Returned(op) == pc = "idle" /\ call.op = op

\* A step that is a whole call of op (every operation but go is one step).
Does(op) == pc = "idle" /\ pc' = "idle" /\ call'.op = op

\* round(principal * interest_rate)
AccruingInterest(p, r) == round(p * r[1], r[2])

\* A fresh loan with valid terms (principal > 0, 0 < rate < 1, periods > 0)
\* on which nothing but go(1) has been called, k times, all returned.
PlainLoan(k) ==
    /\ pc = "idle"
    /\ hist.go1 = k
    /\ Rec(1).principal > 0
    /\ interest_rate[1] > 0 /\ interest_rate[1] < interest_rate[2]
    /\ hist.periods > 0

\* ------------------------------------------------------------------- C1
\* C1: in every state, total_paid equals the sum of principal_paid +
\* interest_paid + other_costs over all records of the ledger.
C1_TotalPaidIsLedgerSum == total_paid = LedgerSum(table)

\* a ledger holding a fee, a principal payment and an interest payment
C1_Witness ==
    /\ \E i \in 1..Len(table) : Rec(i).other_costs # 0
    /\ \E i \in 1..Len(table) :
           Rec(i).principal_paid > 0 /\ Rec(i).interest_paid > 0
    /\ Len(table) = 3

\* ------------------------------------------------------------------- C2
\* C2 as stated: on a fresh loan with valid terms and no extra payments,
\* after exactly `periods` calls of go(1) the principal is 0 and the
\* principal_paid of the records sums to the original principal, and after
\* fewer calls the principal is not yet 0.
C2_Original ==
    /\ PlainLoan(hist.periods) =>
           principal = 0 /\ PrincipalPaidSum(table) = Rec(1).principal
    /\ \A k \in 0..(hist.periods - 1) : PlainLoan(k) => principal # 0

\* C2 amended: after exactly `periods` calls of go(1) on such a loan the
\* remaining principal lies between 0 and the original principal, and the
\* principal_paid of the records sums to the original principal minus the
\* remaining principal (the rounded payment and the rounded interest can
\* leave a residual, or pay the loan off before the last call).
C2_Amended ==
    PlainLoan(hist.periods) =>
        /\ principal >= 0
        /\ principal <= Rec(1).principal
        /\ PrincipalPaidSum(table) = Rec(1).principal - principal
        /\ period <= hist.periods

\* the full term has been run and a residual is left
C2_Witness == PlainLoan(hist.periods) /\ principal > 0 /\ period = hist.periods

\* ------------------------------------------------------------------- C3
\* C3 as stated: principal >= 0 in every state, and principal does not
\* increase in any step that is not a refinance call.
C3_Claim ==
    /\ [](principal >= 0)
    /\ [][principal' > principal => Does("refinance")]_vars

\* ------------------------------------------------------------------- C4
\* C4 as stated: along the ledger, each record's total_paid is at least the
\* total_paid of the record before it.
C4_Claim ==
    \A i \in 1..(Len(table) - 1) : Rec(i + 1).total_paid >= Rec(i).total_paid

\* ------------------------------------------------------------------- C5
\* C5 as stated: a refinance with interest rate 0 fails with an error and
\* leaves period, principal, interest_rate, nominal_payment, payment,
\* total_paid and the ledger as they were before the call.
C5_Claim ==
    [][(Does("refinance") /\ call'.arg[2][1] = 0)
         => (call'.raised /\ State' = State)]_vars

\* ------------------------------------------------------------------- C6
\* C6 as stated: an unbounded go whose payment does not exceed the accruing
\* interest round(principal * interest_rate) does not loop forever.  go
\* keeps no iteration count and its break tests read only period,
\* end_period and principal, so an iteration that stays in the loop with
\* principal unchanged is followed by the same iteration again, forever:
\* the claim requires that no such iteration is taken.
C6_Claim ==
    [][(/\ pc = "go" /\ end_period = None /\ principal # 0
        /\ payment <= AccruingInterest(principal, interest_rate))
       => ~(pc' = "go" /\ period' = period + 1 /\ principal' = principal)
      ]_vars

\* ------------------------------------------------------------------- C7
\* The call in progress or last returned is an unbounded go that was
\* entered with principal > 0 and payment > round(principal * interest_rate).
C7_Call ==
    /\ call.op = "go" /\ call.arg[1] = None
    /\ at_entry.principal > 0
    /\ at_entry.payment >
           AccruingInterest(at_entry.principal, at_entry.interest_rate)

\* C7 as stated: in such a call every iteration strictly decreases the
\* principal without passing 0 (so there are finitely many), and the call
\* returns only with principal 0.
C7_Original ==
    /\ [][(pc = "go" /\ C7_Call /\ period' # period)
            => (principal' < principal /\ principal' >= 0)]_vars
    /\ []((pc = "idle" /\ C7_Call) => principal = 0)

\* C7 amended: the same, for calls entered with interest_rate >= 0 (with a
\* negative rate the accruing interest rises towards 0 as the principal
\* falls, and can reach a payment that was above it at the call).
C7_Amended ==
    /\ [][(/\ pc = "go" /\ C7_Call /\ at_entry.interest_rate[1] >= 0
           /\ period' # period)
            => (principal' < principal /\ principal' >= 0)]_vars
    /\ []((pc = "idle" /\ C7_Call /\ at_entry.interest_rate[1] >= 0)
            => principal = 0)

\* an unbounded go that needed two iterations has paid the loan off
C7_Witness ==
    /\ pc = "idle" /\ C7_Call /\ at_entry.interest_rate[1] >= 0
    /\ period = at_entry.period + 2
    /\ principal = 0

\* ------------------------------------------------------------------- C8
\* C8: pay_extra_one_time(amount) lowers principal by min(amount,
\* principal) and raises total_paid by the same, leaves period alone and
\* appends one record at the current period with that principal_paid and
\* no interest or fees; with amount > principal the principal becomes 0,
\* and it never becomes negative.
C8_PayExtraOneTimeClamps ==
    [][Does("pay_extra_one_time") =>
         LET amount == call'.arg[1]
             x == IF amount <= principal THEN amount ELSE principal
         IN  /\ principal' = principal - x
             /\ principal' >= 0
             /\ amount > principal => principal' = 0
             /\ total_paid' = total_paid + x
             /\ period' = period
             /\ table' = Append(table,
                                [period |-> period,
                                 entry |-> [principal |-> principal - x,
                                            principal_paid |-> x,
                                            interest_paid |-> 0,
                                            other_costs |-> 0,
                                            total_paid |-> total_paid + x]])
             /\ UNCHANGED <<interest_rate, nominal_payment, payment>>
      ]_vars

\* an extra payment larger than the outstanding balance has been made:
\* the record shows that less than the amount was applied
C8_Witness ==
    /\ Returned("pay_extra_one_time")
    /\ Last.principal_paid > 0
    /\ Last.principal_paid < call.arg[1]
    /\ principal = 0

\* ------------------------------------------------------------------- C9
\* C9 as stated: after a refinance call that returns, period and
\* total_paid are what they were before the call, principal is the rounded
\* new principal and payment is the newly computed nominal_payment.
C9_Original ==
    [][(Does("refinance") /\ ~call'.raised) =>
         /\ period' = period
         /\ total_paid' = total_paid
         /\ principal' = round(call'.arg[1], 1)
         /\ payment' = nominal_payment'
         /\ nominal_payment' =
                payment_per_period(principal', call'.arg[2], call'.arg[3])
      ]_vars

\* C9 amended: after a refinance call that returns, period is what it was
\* before the call and total_paid is its value before the call plus the
\* call's other_costs; principal is the rounded new principal and payment
\* is the newly computed nominal_payment.
C9_Amended ==
    [][(Does("refinance") /\ ~call'.raised) =>
         /\ period' = period
         /\ total_paid' = total_paid + call'.arg[4]
         /\ principal' = round(call'.arg[1], 1)
         /\ payment' = nominal_payment'
         /\ nominal_payment' =
                payment_per_period(principal', call'.arg[2], call'.arg[3])
      ]_vars

\* a refinance with fees has returned, made mid-schedule when money had
\* been paid, with a principal that needed rounding
C9_Witness ==
    /\ Returned("refinance") /\ ~call.raised
    /\ period > 0
    /\ call.arg[4] # 0
    /\ total_paid # call.arg[4]
    /\ call.arg[1] # principal

\* ------------------------------------------------------------------ C10
\* C10: go(0) appends no record and changes none of period, principal,
\* interest_rate, nominal_payment, payment and total_paid, whatever the
\* state it is called in: no step of a go(0) call, from its entry to its
\* return, changes the engine's fields or the ledger.
C10_GoZeroIsNoOp ==
    [][(call'.op = "go" /\ call'.arg[1] = 0) => State' = State]_vars

\* go(0) has returned on an open loan whose ledger could still grow
C10_Witness ==
    /\ Returned("go") /\ call.arg[1] = 0
    /\ principal > 0
    /\ Len(table) < MaxLedger

\* ------------------------------------------------------------------ C11
\* C11: pay_extra_each_time(amount) sets payment = nominal_payment + amount
\* and nothing else: no record is appended and principal, total_paid,
\* period, interest_rate and nominal_payment are unchanged.  The new payment
\* does not depend on the payment before the call, so a second call
\* replaces the extra of the first.
C11_PayExtraEachTimeOverrides ==
    [][Does("pay_extra_each_time") =>
         /\ payment' = nominal_payment + call'.arg[1]
         /\ UNCHANGED <<table, principal, total_paid, period, interest_rate,
                        nominal_payment>>
      ]_vars

\* pay_extra_each_time has returned with a negative extra, after a go step
\* that paid more than nominal_payment (so a positive extra was standing):
\* the payment is nominal_payment plus the new extra alone
C11_Witness ==
    /\ Returned("pay_extra_each_time")
    /\ call.arg[1] < 0
    /\ Len(table) >= 2
    /\ Last.principal_paid + Last.interest_paid > nominal_payment
    /\ payment = nominal_payment + call.arg[1]

\* ------------------------------------------------------------------ C12
\* The principal_paid a go step would record from the current state if the
\* payment were nominal_payment (no extra).
C12_WithoutExtra ==
    LET ni == AccruingInterest(principal, interest_rate)
        ip == IF ni <= nominal_payment THEN ni ELSE nominal_payment
    IN  IF principal <= nominal_payment - ip
          THEN principal ELSE nominal_payment - ip

\* The first iteration of a go(1) call on an open loan with a positive
\* standing extra (payment is nominal_payment + extra).
C12_Step ==
    /\ pc = "go" /\ call.arg[1] = 1
    /\ payment > nominal_payment
    /\ principal > 0
    /\ period' = period + 1

\* C12 as stated: the principal_paid recorded by go(1) after
\* pay_extra_each_time(extra), extra > 0, is strictly greater than the one
\* go(1) would record from the same state without the extra.
C12_Original ==
    [][C12_Step =>
         table'[Len(table')].entry.principal_paid > C12_WithoutExtra]_vars

\* C12 amended: it is at least the one go(1) would record without the
\* extra, and strictly greater whenever the payment without the extra would
\* not already pay off the whole principal and the payment with the extra
\* exceeds the accruing interest round(principal * interest_rate).
C12_Amended ==
    [][C12_Step =>
         LET pp == table'[Len(table')].entry.principal_paid
         IN  /\ pp >= C12_WithoutExtra
             /\ (/\ C12_WithoutExtra < principal
                 /\ payment > AccruingInterest(principal, interest_rate))
                  => pp > C12_WithoutExtra]_vars

\* go(1) has recorded a step made with a positive standing extra, and the
\* principal paid is more than nominal_payment alone could have paid
C12_Witness ==
    /\ call.op = "go" /\ call.arg[1] = 1
    /\ at_entry.payment > nominal_payment
    /\ at_entry.principal > 0
    /\ period = at_entry.period + 1
    /\ Last.principal_paid + Last.interest_paid > nominal_payment
    /\ Last.principal_paid < at_entry.principal

\* ------------------------------------------------------------------ C13
\* Construction leaves one record, and a step of go grows the ledger by as
\* much as it advances period.
C13_InitAndGo ==
    /\ Len(table) = 1
    /\ [][(pc = "go" \/ pc' = "go")
            => Len(table') - Len(table) = period' - period]_vars

\* C13 as stated: every mutating operation other than go (refinance,
\* pay_extra_one_time, pay_extra_each_time, pay_other_costs) appends exactly
\* one record when it returns; construction leaves one record; go appends
\* as many records as it advances period.
C13_Original ==
    /\ C13_InitAndGo
    /\ [][(/\ \/ Does("refinance") \/ Does("pay_extra_one_time")
              \/ Does("pay_extra_each_time") \/ Does("pay_other_costs")
           /\ ~call'.raised)
            => Len(table') = Len(table) + 1]_vars

\* C13 amended: construction, a refinance that returns, pay_extra_one_time
\* and pay_other_costs each append exactly one record,
\* pay_extra_each_time (which changes payment) appends none, and go
\* appends as many records as it advances period.
C13_Amended ==
    /\ C13_InitAndGo
    /\ [][(/\ \/ Does("refinance") \/ Does("pay_extra_one_time")
              \/ Does("pay_other_costs")
           /\ ~call'.raised)
            => (Len(table') = Len(table) + 1 /\ period' = period)]_vars
    /\ [][Does("pay_extra_each_time") => table' = table]_vars

\* a go that advanced two periods has returned with two more records
C13_Witness ==
    /\ Returned("go")
    /\ period = at_entry.period + 2
    /\ Len(table) = 3

\* ------------------------------------------------------------------ C14
\* C14: the period numbers of the ledger are non-decreasing in insertion
\* order in every state, and every step leaves the records that were in
\* the ledger where and as they were (the old ledger is a prefix of the new).
C14_AppendOnlyOrdered ==
    /\ [](\A i \in 1..(Len(table) - 1) :
            table[i].period <= table[i + 1].period)
    /\ [][/\ Len(table') >= Len(table)
          /\ SubSeq(table', 1, Len(table)) = table]_vars

\* a ledger in which a period number repeats and then rises
C14_Witness ==
    /\ Len(table) = 3
    /\ table[1].period = table[2].period
    /\ table[2].period < table[3].period

\* ------------------------------------------------------------------ C15
\* The fresh loan of 300000 at 0.04/12 over 60 periods, before any call
\* other than go.
C15_Fresh ==
    /\ Rec(1).principal = 300000 * Dollar
    /\ interest_rate = <<1, 300>>
    /\ hist.periods = 60
    /\ payment = nominal_payment

\* The record of the first go step is in the ledger.
C15_Stepped == C15_Fresh /\ Len(table) >= 2 /\ table[2].period = 1

\* C15 as stated: nominal_payment is 5524.81, and the record of go(1) has
\* interest_paid 1000.00, principal_paid 4524.81 and principal 295475.19.
C15_Original ==
    /\ C15_Fresh => nominal_payment = 552481 * Cent
    /\ C15_Stepped =>
         /\ Rec(2).interest_paid = 100000 * Cent
         /\ Rec(2).principal_paid = 452481 * Cent
         /\ Rec(2).principal = 29547519 * Cent

\* C15 amended: nominal_payment is 5524.96, and the record of go(1) has
\* interest_paid 1000.00, principal_paid 4524.96 and principal 295475.04.
C15_Amended ==
    /\ C15_Fresh => nominal_payment = 552496 * Cent
    /\ C15_Stepped =>
         /\ Rec(2).interest_paid = 100000 * Cent
         /\ Rec(2).principal_paid = 452496 * Cent
         /\ Rec(2).principal = 29547504 * Cent

\* go(1) has returned on the fresh loan with its one record
C15_Witness ==
    /\ C15_Stepped
    /\ Returned("go") /\ call.arg[1] = 1
    /\ Len(table) = 2
    /\ principal = Rec(2).principal

\* ------------------------------------------------------------------ C16
\* C16: from a state with principal = 0, every step of go (entry, which
\* appends nothing and runs no iteration, and return) leaves the engine
\* state and the ledger unchanged, pay_extra_one_time leaves principal and
\* total_paid unchanged, and no call other than refinance makes principal
\* differ from 0.
C16_Claim ==
    [][principal = 0 =>
         /\ (pc = "go" \/ pc' = "go") => State' = State
         /\ Does("pay_extra_one_time")
              => (principal' = principal /\ total_paid' = total_paid)
         /\ ~Does("refinance") => principal' = 0
      ]_vars

\* ------------------------------------------------------------------ C17
\* C17: when go(n), n >= 0, has returned, period is the period at the call
\* plus n, or principal is 0 and period is less than that; and go runs no
\* iteration from a state with principal = 0.
C17_GoStopsAtCountOrClose ==
    /\ []((Returned("go") /\ call.arg[1] # None) =>
            \/ period = at_entry.period + call.arg[1]
            \/ (principal = 0 /\ period < at_entry.period + call.arg[1]))
    /\ [][(pc = "go" /\ period' # period) => principal # 0]_vars

\* go(2) has returned after one iteration, which closed the loan
C17_Witness ==
    /\ Returned("go")
    /\ call.arg[1] = 2
    /\ at_entry.principal > 0
    /\ principal = 0
    /\ period = at_entry.period + 1

\* ------------------------------------------------------------------ C18
\* One iteration of go's loop.
C18_Step == pc = "go" /\ table' # table

\* C18: an iteration of go raises period by 1 and appends one record, at
\* the new period, with interest_paid = min(round(principal *
\* interest_rate), payment) and principal_paid = min(principal, payment -
\* interest_paid), both from the principal before the step, no other
\* costs, and the principal and total_paid after the step; principal falls
\* by principal_paid and by nothing else (interest the payment does not
\* cover is not added to it), and total_paid rises by principal_paid +
\* interest_paid.
C18_GoStep ==
    [][C18_Step =>
         LET ni == AccruingInterest(principal, interest_rate)
             ip == IF ni <= payment THEN ni ELSE payment
             pp == IF principal <= payment - ip THEN principal
                   ELSE payment - ip
         IN  /\ period' = period + 1
             /\ Len(table') = Len(table) + 1
             /\ SubSeq(table', 1, Len(table)) = table
             /\ table'[Len(table')].period = period'
             /\ table'[Len(table')].entry =
                  [principal |-> principal - pp, principal_paid |-> pp,
                   interest_paid |-> ip, other_costs |-> 0,
                   total_paid |-> total_paid + pp + ip]
             /\ principal' = principal - pp
             /\ principal' <= principal
             /\ total_paid' = total_paid + pp + ip
             /\ UNCHANGED <<interest_rate, nominal_payment, payment>>
      ]_vars

\* a step has been recorded in which the payment covered the interest and
\* part of the principal
C18_Witness ==
    /\ call.op = "go"
    /\ period = at_entry.period + 1
    /\ Last.interest_paid
         = AccruingInterest(at_entry.principal, at_entry.interest_rate)
    /\ Last.interest_paid > 0
    /\ Last.principal_paid = at_entry.payment - Last.interest_paid
    /\ Last.principal_paid > 0
    /\ principal = at_entry.principal - Last.principal_paid
    /\ principal > 0

\* ------------------------------------------------------------------ C19
WholeCents(x) == x % Cent = 0

\* C19: in every state principal, nominal_payment, payment and total_paid,
\* and the five amounts of every record of the ledger, are whole numbers
\* of cents, whatever the precision of the amounts the operations were
\* given.
C19_Claim ==
    /\ WholeCents(principal) /\ WholeCents(nominal_payment)
    /\ WholeCents(payment) /\ WholeCents(total_paid)
    /\ \A i \in 1..Len(table) :
         /\ WholeCents(Rec(i).principal)
         /\ WholeCents(Rec(i).principal_paid)
         /\ WholeCents(Rec(i).interest_paid)
         /\ WholeCents(Rec(i).other_costs)
         /\ WholeCents(Rec(i).total_paid)

\* ------------------------------------------------------------------ C20
\* C20: in every state the last record of the ledger carries the engine's
\* period, principal and total_paid; and every record appended by a call
\* other than refinance (construction appends the first) has as principal
\* the principal of the record before it minus its own principal_paid.
C20_Claim ==
    /\ [](/\ table[Len(table)].period = period
          /\ Last.principal = principal
          /\ Last.total_paid = total_paid)
    /\ [][(Len(table') = Len(table) + 1 /\ ~Does("refinance")) =>
            table'[Len(table')].entry.principal
              = Last.principal - table'[Len(table')].entry.principal_paid
         ]_vars

====
